---- MODULE Spec2Model ----
(***************************************************************************)
(* fetch_rates.py: quota-aware incremental backfill of per-month archives  *)
(* of daily currency rates.  Each process in Procs is one invocation of    *)
(* main(); the processes share the archive files, their sibling lock files *)
(* and the remote quota counter.                                           *)
(*                                                                         *)
(* Dates of one month are modelled by their day number (the ISO strings of *)
(* one month sort as their day numbers do); a month is the pair <<y, m>>.  *)
(***************************************************************************)
EXTENDS Integers, Sequences, FiniteSets, TLC

(***************************************************************************)
(* Bounds of the model                                                     *)
(***************************************************************************)
DaysPerMonth == 3     \* monthrange(y, m)[1], scaled down
MaxQuota == 2         \* largest remote "remaining" at the start

(***************************************************************************)
(* Configuration read from the environment (lines 37-62).  MAX_RETRIES and *)
(* MAX_REQUESTS_PER_MINUTE are set below their defaults (4 and 10); the    *)
(* other values are the defaults.                                          *)
(***************************************************************************)
START_YEAR == 2023
MAX_RETRIES == 1
MAX_PER_MINUTE == 2
REQUEST_TIMEOUT == 30
TodayYear == 2023     \* date.today().year
TodayMonth == 2       \* date.today().month
TodayDay == 2         \* date.today().day: not the last day of the month

None == -1            \* Python None for an absent "remaining"
NoTarget == <<>>      \* target = None

\* two concurrent invocations of main()
Procs == {1, 2}

\* resp.status_code classes of one HTTP attempt, or a RequestException
Outcomes == {"200", "429", "5xx", "other", "transport"}

VARIABLES
  files,             \* archive file per month: day -> cell
  lock_holders,      \* per lock path (one per month): processes holding it
  quota,             \* the remote service's remaining monthly quota
  ALLOW_PARTIAL_MONTH,
  SAFETY_BUFFER,
  pc,                \* position of each run in main()
  attempt,           \* do_request: attempt
  remaining,         \* main: remaining (status snapshot)
  scan,              \* main: position of the months_since loop
  target,            \* main: (year, month) of the target
  missing_dates,     \* main: missing_dates
  existing_rows,     \* main: existing_rows
  rows_fetched,      \* main: rows_fetched
  available,         \* main: available
  exit_code,         \* value returned by main()
  ret_line,          \* source line of the return statement taken
  n_historical,      \* /historical HTTP attempts sent by the run
  n_writes,          \* write_csv_rows calls made by the run
  n_locks,           \* lock acquisitions made by the run
  plan_dates,        \* missing_dates as planned by the budget step
  status_seen,       \* what get_status() gave the run
  \* one process seen in time (rate limiter and request client)
  now,               \* time.time(), in ticks
  request_timestamps,\* _request_timestamps
  rl_pc,             \* position in the fetch loop / do_request
  rl_attempt,        \* do_request: attempt
  rl_calls,          \* do_request("/historical") calls begun
  sent_times,        \* time of every requests.get sent
  call_times,        \* time the first requests.get of each call was sent
  rl_seen,           \* outcomes of the attempts of the current call
  rl_slept,          \* backoff sleeps of the current call
  rl_result,         \* how the current call ended: "return", "raise"
  \* one call of write_csv_rows(path, rows_by_date), statement by statement
  wr_pc,             \* position in write_csv_rows
  wr_path,           \* content of the destination file: day -> cell
  wr_tmp_exists,     \* tmp.exists()
  wr_tmp,            \* content of the temporary file: day -> cell
  wr_rows,           \* rows_by_date
  wr_i,              \* rows of dates_sorted written so far
  wr_exc,            \* an exception is propagating out of the try block
  wr_prior,          \* content of the destination when the call began
  wr_created,        \* open(tmp, "w") succeeded in this call
  wr_unlink          \* outcome of tmp.unlink(): "none", "ok" or "failed"

shared == <<files, lock_holders, quota>>
config == <<ALLOW_PARTIAL_MONTH, SAFETY_BUFFER>>
locals == <<attempt, remaining, scan, target, missing_dates, existing_rows,
            rows_fetched, available>>
results == <<exit_code, ret_line>>
history == <<n_historical, n_writes, n_locks, plan_dates, status_seen>>
timed == <<now, request_timestamps, rl_pc, rl_attempt, rl_calls, sent_times,
           call_times, rl_seen, rl_slept, rl_result>>
untimed == <<shared, config, pc, locals, results, history>>
writer == <<wr_pc, wr_path, wr_tmp_exists, wr_tmp, wr_rows, wr_i, wr_exc,
            wr_prior, wr_created, wr_unlink>>
vars == <<untimed, timed, writer>>

(***************************************************************************)
(* Month iteration helpers                                                 *)
(***************************************************************************)
RECURSIVE MonthsFrom(_, _)
MonthsFrom(y, m) ==
  IF (y < TodayYear) \/ (y = TodayYear /\ m <= TodayMonth)
  THEN <<  <<y, m>>  >> \o (IF m = 12 THEN MonthsFrom(y + 1, 1)
                                      ELSE MonthsFrom(y, m + 1))
  ELSE << >>

MonthsSinceLatestFirst(year_start) ==
  LET m == MonthsFrom(year_start, 1)
  IN  [i \in 1..Len(m) |-> m[Len(m) + 1 - i]]

months_since(year_start) == MonthsFrom(year_start, 1)

dates_in_month(year, month) == [d \in 1..DaysPerMonth |-> d]

MonthKeys == {months_since(START_YEAR)[i] :
                 i \in 1..Len(months_since(START_YEAR))}

(***************************************************************************)
(* CSV helpers.  A cell is "raw" (text as found in a file this program did *)
(* not write), "float" (a value parsed by float()), "api" (a value         *)
(* returned by /historical in some run) or "bad" (content on which reading *)
(* the file raises, such as bytes that are not UTF-8).                     *)
(***************************************************************************)
Normalize(cell) == IF cell = "raw" THEN "float" ELSE cell

\* the rows read before the first row on which reading raises: the except
\* clause (lines 228-229) logs the exception and the result so far is
\* returned
read_csv_rows(file) ==
  LET bad == {d \in DOMAIN file : file[d] = "bad"}
      got == {d \in DOMAIN file : \A b \in bad : d < b}
  IN  [d \in got |-> Normalize(file[d])]

\* dict.update: keys of b win
Update(a, b) ==
  [d \in (DOMAIN a) \cup (DOMAIN b) |-> IF d \in DOMAIN b THEN b[d] ELSE a[d]]

\* [d for d in seq if d not in rows]
RECURSIVE NotIn(_, _)
NotIn(seq, rows) ==
  IF seq = << >> THEN << >>
  ELSE IF Head(seq) \in DOMAIN rows THEN NotIn(Tail(seq), rows)
       ELSE <<Head(seq)>> \o NotIn(Tail(seq), rows)

KeepAll(seq, other) == seq

\* [d for d in seq if d in other]
RECURSIVE KeepIn(_, _)
KeepIn(seq, other) ==
  IF seq = << >> THEN << >>
  ELSE IF \E i \in 1..Len(other) : other[i] = Head(seq)
       THEN <<Head(seq)>> \o KeepIn(Tail(seq), other)
       ELSE KeepIn(Tail(seq), other)

\* list.sort() on a list of dates
RECURSIVE Insert(_, _)
Insert(x, seq) ==
  IF seq = << >> THEN <<x>>
  ELSE IF x <= Head(seq) THEN <<x>> \o seq
       ELSE <<Head(seq)>> \o Insert(x, Tail(seq))

RECURSIVE Sort(_)
Sort(seq) == IF seq = << >> THEN << >> ELSE Insert(Head(seq), Sort(Tail(seq)))

Range(seq) == {seq[i] : i \in 1..Len(seq)}

(***************************************************************************)
(* do_request: what one HTTP attempt leads to                              *)
(***************************************************************************)
DoRequestRetries429(att, oc) ==
  IF oc = "transport"
  THEN IF att <= MAX_RETRIES THEN "retry" ELSE "raise"
  ELSE IF oc \in {"5xx", "429"} /\ att <= MAX_RETRIES THEN "retry"
       ELSE "return"

DoRequestUnbounded(att, oc) ==
  IF oc \in {"transport", "5xx"} THEN "retry" ELSE "return"

DoRequest(att, oc) ==
  IF oc = "transport"
  THEN IF att <= MAX_RETRIES THEN "retry" ELSE "raise"
  ELSE IF oc = "5xx" /\ att <= MAX_RETRIES THEN "retry" ELSE "return"

(***************************************************************************)
(* Quota budget (main, lines 316-341)                                      *)
(***************************************************************************)
PlanLatest(rem, buffer, missing, allow_partial) ==
  LET need == Len(missing)
      avail == rem - buffer
  IN  IF rem = None
        THEN [go |-> FALSE, code |-> 1, line |-> 320, dates |-> missing, available |-> 0]
      ELSE IF rem < buffer
        THEN [go |-> FALSE, code |-> 0, line |-> 324, dates |-> missing, available |-> 0]
      ELSE IF avail <= 0
        THEN [go |-> FALSE, code |-> 0, line |-> 330, dates |-> missing, available |-> avail]
      ELSE IF avail < need
        THEN IF ~allow_partial
             THEN [go |-> FALSE, code |-> 0, line |-> 335, dates |-> missing,
                   available |-> avail]
             ELSE [go |-> TRUE, code |-> 0, line |-> 0,
                   dates |-> SubSeq(missing, need - avail + 1, need),
                   available |-> avail]
      ELSE [go |-> TRUE, code |-> 0, line |-> 0, dates |-> missing, available |-> avail]

Plan(rem, buffer, missing, allow_partial) ==
  LET need == Len(missing)
      avail == rem - buffer
  IN  IF rem = None
        THEN [go |-> FALSE, code |-> 1, line |-> 320, dates |-> missing, available |-> 0]
      ELSE IF rem < buffer
        THEN [go |-> FALSE, code |-> 0, line |-> 324, dates |-> missing, available |-> 0]
      ELSE IF avail <= 0
        THEN [go |-> FALSE, code |-> 0, line |-> 330, dates |-> missing, available |-> avail]
      ELSE IF avail < need
        THEN IF ~allow_partial
             THEN [go |-> FALSE, code |-> 0, line |-> 335, dates |-> missing,
                   available |-> avail]
             ELSE [go |-> TRUE, code |-> 0, line |-> 0,
                   dates |-> SubSeq(missing, 1, avail), available |-> avail]
      ELSE [go |-> TRUE, code |-> 0, line |-> 0, dates |-> missing, available |-> avail]

(***************************************************************************)
(* Initial state                                                           *)
(***************************************************************************)
Days == 1..DaysPerMonth
InitFiles == UNION {[S -> {"raw"}] : S \in SUBSET Days}

\* the timed process before its first request: an empty limiter
InitTimed ==
  /\ now = 0
  /\ request_timestamps = << >>
  /\ rl_pc = "top"
  /\ rl_attempt = 0
  /\ rl_calls = 1
  /\ sent_times = << >>
  /\ call_times = << >>
  /\ rl_seen = << >>
  /\ rl_slept = << >>
  /\ rl_result = "none"

\* no call of write_csv_rows is looked at statement by statement
InitWriterIdle ==
  /\ wr_pc = "idle"
  /\ wr_path = << >>
  /\ wr_tmp_exists = FALSE
  /\ wr_tmp = << >>
  /\ wr_rows = << >>
  /\ wr_i = 0
  /\ wr_exc = FALSE
  /\ wr_prior = << >>
  /\ wr_created = FALSE
  /\ wr_unlink = "none"

InitShared ==
  /\ files \in [MonthKeys -> InitFiles]
  /\ lock_holders = [k \in MonthKeys |-> {}]
  /\ quota \in 0..MaxQuota
  /\ ALLOW_PARTIAL_MONTH \in BOOLEAN
  /\ SAFETY_BUFFER \in {0, 1}

\* archives of which the oldest month may hold rows that cannot be read
InitSharedRead ==
  /\ \E first \in UNION {[S -> {"raw", "bad"}] : S \in SUBSET Days} :
       files = [k \in MonthKeys |->
                  IF k = months_since(START_YEAR)[1] THEN first ELSE << >>]
  /\ lock_holders = [k \in MonthKeys |-> {}]
  /\ quota \in 0..MaxQuota
  /\ ALLOW_PARTIAL_MONTH \in BOOLEAN
  /\ SAFETY_BUFFER \in {0, 1}

InitRuns ==
  /\ pc = [p \in Procs |-> "status"]
  /\ attempt = [p \in Procs |-> 0]
  /\ remaining = [p \in Procs |-> None]
  /\ scan = [p \in Procs |-> 1]
  /\ target = [p \in Procs |-> NoTarget]
  /\ missing_dates = [p \in Procs |-> << >>]
  /\ existing_rows = [p \in Procs |-> << >>]
  /\ rows_fetched = [p \in Procs |-> << >>]
  /\ available = [p \in Procs |-> 0]
  /\ exit_code = [p \in Procs |-> None]
  /\ ret_line = [p \in Procs |-> 0]
  /\ n_historical = [p \in Procs |-> 0]
  /\ n_writes = [p \in Procs |-> 0]
  /\ n_locks = [p \in Procs |-> 0]
  /\ plan_dates = [p \in Procs |-> << >>]
  /\ status_seen = [p \in Procs |-> "none"]

Init == InitShared /\ InitRuns /\ InitTimed /\ InitWriterIdle

(***************************************************************************)
(* Leaving main()                                                          *)
(***************************************************************************)
\* the locals of main() and do_request() are gone once main() has returned
Cleared(p) ==
  /\ attempt' = [attempt EXCEPT ![p] = 0]
  /\ remaining' = [remaining EXCEPT ![p] = None]
  /\ scan' = [scan EXCEPT ![p] = 1]
  /\ target' = [target EXCEPT ![p] = NoTarget]
  /\ missing_dates' = [missing_dates EXCEPT ![p] = << >>]
  /\ existing_rows' = [existing_rows EXCEPT ![p] = << >>]
  /\ rows_fetched' = [rows_fetched EXCEPT ![p] = << >>]
  /\ available' = [available EXCEPT ![p] = 0]
  /\ plan_dates' = [plan_dates EXCEPT ![p] = << >>]

\* a return statement outside the "with lock" block
Return(p, code, line) ==
  /\ exit_code' = [exit_code EXCEPT ![p] = code]
  /\ ret_line' = [ret_line EXCEPT ![p] = line]
  /\ pc' = [pc EXCEPT ![p] = "done"]
  /\ Cleared(p)

\* a return statement (or an exception) inside the "with lock" block: the
\* lock is released by Unlock before main() returns
Leave(p, code, line) ==
  /\ exit_code' = [exit_code EXCEPT ![p] = code]
  /\ ret_line' = [ret_line EXCEPT ![p] = line]
  /\ pc' = [pc EXCEPT ![p] = "unlock"]

(***************************************************************************)
(* STATUS_CHECK: get_status() through do_request("/status")                *)
(***************************************************************************)
\* get_status() (lines 145-161): None when the call raised or the response
\* is not a 200, else the dict, whose "remaining" may be None
GetStatusLenient(r, oc) == IF r = "raise" THEN "None" ELSE "dict"

get_status(r, oc) == IF r = "raise" \/ oc # "200" THEN "None" ELSE "dict"

\* what the /status call really gave: no answer or a non-200 ("failed"), a
\* 200 without a remaining count ("no_remaining"), or a count ("ok")
StatusGiven(r, oc, rem) ==
  IF r = "raise" \/ oc # "200" THEN "failed"
  ELSE IF rem = None THEN "no_remaining" ELSE "ok"

StatusAttempt(p) ==
  /\ pc[p] = "status"
  /\ \E oc \in Outcomes :
       LET att == attempt[p] + 1
           r == DoRequest(att, oc)
       IN  \/ /\ r = "retry"
              /\ attempt' = [attempt EXCEPT ![p] = att]
              /\ UNCHANGED <<pc, results, remaining, scan, target,
                             missing_dates, existing_rows, rows_fetched,
                             available, plan_dates, status_seen>>
           \/ /\ r # "retry"
              /\ \E rem \in {quota, None} :
                   LET status == get_status(r, oc)
                   IN  /\ status_seen' = [status_seen EXCEPT ![p] =
                                             StatusGiven(r, oc, rem)]
                       /\ \/ /\ status = "None"
                             /\ Return(p, 1, 290)
                          \/ /\ status # "None"
                             /\ attempt' = [attempt EXCEPT ![p] = 0]
                             /\ remaining' = [remaining EXCEPT ![p] = rem]
                             /\ pc' = [pc EXCEPT ![p] = "locate"]
                             /\ UNCHANGED <<results, scan, target,
                                            missing_dates, existing_rows,
                                            rows_fetched, available,
                                            plan_dates>>
  /\ UNCHANGED <<shared, config, n_historical, n_writes, n_locks>>
  /\ UNCHANGED <<timed, writer>>

(***************************************************************************)
(* LOCATE_TARGET: one iteration of the months_since loop (lines 298-309)   *)
(***************************************************************************)
ScanMonth(p) ==
  /\ pc[p] = "locate"
  /\ LET months == months_since(START_YEAR)
         ym == months[scan[p]]
         existing == read_csv_rows(files[ym])
         all_dates == dates_in_month(ym[1], ym[2])
         missing == NotIn(all_dates, existing)
     IN  \/ /\ missing # << >>
            /\ target' = [target EXCEPT ![p] = ym]
            /\ missing_dates' = [missing_dates EXCEPT ![p] = Sort(missing)]
            /\ existing_rows' = [existing_rows EXCEPT ![p] = existing]
            /\ pc' = [pc EXCEPT ![p] = "budget"]
            /\ UNCHANGED <<results, attempt, remaining, scan, rows_fetched,
                           available, plan_dates>>
         \/ /\ missing = << >>
            /\ scan[p] < Len(months)
            /\ scan' = [scan EXCEPT ![p] = scan[p] + 1]
            /\ UNCHANGED <<pc, results, attempt, remaining, target,
                           missing_dates, existing_rows, rows_fetched,
                           available, plan_dates>>
         \/ /\ missing = << >>
            /\ scan[p] = Len(months)
            /\ Return(p, 0, 309)
  /\ UNCHANGED <<shared, config, n_historical, n_writes, n_locks, status_seen>>
  /\ UNCHANGED <<timed, writer>>

(***************************************************************************)
(* BUDGET (lines 311-341)                                                  *)
(***************************************************************************)
Budget(p) ==
  /\ pc[p] = "budget"
  /\ LET d == Plan(remaining[p], SAFETY_BUFFER, missing_dates[p],
                   ALLOW_PARTIAL_MONTH)
     IN  \/ /\ ~d.go
            /\ Return(p, d.code, d.line)
         \/ /\ d.go
            /\ missing_dates' = [missing_dates EXCEPT ![p] = d.dates]
            /\ plan_dates' = [plan_dates EXCEPT ![p] = d.dates]
            /\ available' = [available EXCEPT ![p] = d.available]
            /\ pc' = [pc EXCEPT ![p] = "lock"]
            /\ UNCHANGED <<results, attempt, remaining, scan, target,
                           existing_rows, rows_fetched>>
  /\ UNCHANGED <<shared, config, n_historical, n_writes, n_locks, status_seen>>
  /\ UNCHANGED <<timed, writer>>

(***************************************************************************)
(* LOCK_ACQUIRE: FileLock(path + ".lock", timeout) (lines 344-348)         *)
(***************************************************************************)
LockFreeAlways(k) == TRUE

\* the lock file can be taken when no process holds it
LockFree(k) == lock_holders[k] = {}

LockAcquire(p) ==
  /\ pc[p] = "lock"
  /\ LockFree(target[p])
  /\ lock_holders' = [lock_holders EXCEPT ![target[p]] = @ \cup {p}]
  /\ n_locks' = [n_locks EXCEPT ![p] = @ + 1]
  /\ pc' = [pc EXCEPT ![p] = "revalidate"]
  /\ UNCHANGED <<files, quota, config, locals, results, n_historical,
                 n_writes, plan_dates, status_seen>>
  /\ UNCHANGED <<timed, writer>>

LockTimeoutSwallowed(p) ==
  /\ pc[p] = "lock"
  /\ lock_holders[target[p]] # {}
  /\ Return(p, 0, 385)
  /\ UNCHANGED <<shared, config, n_historical, n_writes, n_locks, status_seen>>
  /\ UNCHANGED <<timed, writer>>

\* the lock stayed held by another run for FILELOCK_TIMEOUT: Timeout (383-385)
LockTimeout(p) ==
  /\ pc[p] = "lock"
  /\ ~LockFree(target[p])
  /\ Return(p, 1, 385)
  /\ UNCHANGED <<shared, config, n_historical, n_writes, n_locks, status_seen>>
  /\ UNCHANGED <<timed, writer>>

(***************************************************************************)
(* LOCK_REVALIDATE (lines 350-362)                                         *)
(***************************************************************************)
Revalidate(p) ==
  /\ pc[p] = "revalidate"
  /\ LET existing == read_csv_rows(files[target[p]])
         all_dates == dates_in_month(target[p][1], target[p][2])
         missing_dates_current == NotIn(all_dates, existing)
         missing == Sort(KeepIn(missing_dates[p], missing_dates_current))
     IN  /\ existing_rows' = [existing_rows EXCEPT ![p] = existing]
         /\ missing_dates' = [missing_dates EXCEPT ![p] = missing]
         /\ \/ /\ missing = << >>
               /\ Leave(p, 0, 360)
            \/ /\ missing # << >>
               /\ pc' = [pc EXCEPT ![p] = "fetch"]
               /\ UNCHANGED results
  /\ rows_fetched' = [rows_fetched EXCEPT ![p] = << >>]
  /\ UNCHANGED <<shared, config, attempt, remaining, scan, target, available,
                 history>>
  /\ UNCHANGED <<timed, writer>>

(***************************************************************************)
(* FETCH_LOOP: one HTTP attempt of get_historical_for_date(dt) through     *)
(* do_request("/historical") (lines 362-377, 164-191, 111-134)             *)
(***************************************************************************)
HasRowsAlways(rows) == TRUE

\* if rows_fetched: (line 372)
HasRows(rows) == rows # << >>

NextDateFromEnd(missing, fetched) ==
  missing[Len(missing) - Cardinality(DOMAIN fetched)]

\* for dt in missing_dates (line 364): the date the loop is at when the
\* dates before it have been fetched
NextDate(missing, fetched) == missing[Cardinality(DOMAIN fetched) + 1]

\* the remote service answers 200 only while quota is left, and charges it
ServerCanServe == quota > 0

FetchAttempt(p) ==
  /\ pc[p] = "fetch"
  /\ n_historical' = [n_historical EXCEPT ![p] = @ + 1]
  /\ \E oc \in Outcomes :
       LET att == attempt[p] + 1
           r == DoRequest(att, oc)
           dt == NextDate(missing_dates[p], rows_fetched[p])
           fetched == Update(rows_fetched[p], (dt :> "api"))
       IN  \/ /\ r = "retry"
              /\ attempt' = [attempt EXCEPT ![p] = att]
              /\ UNCHANGED <<pc, rows_fetched, available, results, quota>>
           \/ /\ r = "return" /\ oc = "200"
              /\ ServerCanServe
              /\ quota' = quota - 1
              /\ attempt' = [attempt EXCEPT ![p] = 0]
              /\ rows_fetched' = [rows_fetched EXCEPT ![p] = fetched]
              /\ available' = [available EXCEPT ![p] = @ - 1]
              /\ pc' = [pc EXCEPT ![p] =
                          IF Cardinality(DOMAIN fetched) = Len(missing_dates[p])
                          THEN "write" ELSE "fetch"]
              /\ UNCHANGED results
           \/ /\ r = "raise" \/ (r = "return" /\ oc # "200")
              /\ attempt' = [attempt EXCEPT ![p] = 0]
              /\ \/ /\ HasRows(rows_fetched[p])
                    /\ pc' = [pc EXCEPT ![p] = "save_partial"]
                    /\ UNCHANGED results
                 \/ /\ ~HasRows(rows_fetched[p])
                    /\ Leave(p, 1, 377)
              /\ UNCHANGED <<rows_fetched, available, quota>>
  /\ UNCHANGED <<files, lock_holders, config, remaining, scan, target,
                 missing_dates, existing_rows, n_writes, n_locks, plan_dates,
                 status_seen>>
  /\ UNCHANGED <<timed, writer>>

(***************************************************************************)
(* MERGE_WRITE                                                             *)
(***************************************************************************)
WriteNothing(file, rows_by_date, ok) == file

\* write_csv_rows: the file holds the rows, or keeps its content when the
\* write fails
write_csv_rows(file, rows_by_date, ok) == IF ok THEN rows_by_date ELSE file

\* after a completed loop (lines 379-382, 386-391)
WriteFull(p) ==
  /\ pc[p] = "write"
  /\ LET merged == Update(existing_rows[p], rows_fetched[p])
     IN  /\ existing_rows' = [existing_rows EXCEPT ![p] = merged]
         /\ n_writes' = [n_writes EXCEPT ![p] = @ + 1]
         /\ \E ok \in BOOLEAN :
              /\ files' = [files EXCEPT ![target[p]] =
                             write_csv_rows(@, merged, ok)]
              /\ IF ok THEN Leave(p, 0, 391) ELSE Leave(p, 1, 388)
  /\ UNCHANGED <<lock_holders, quota, config, attempt, remaining, scan, target,
                 missing_dates, rows_fetched, available, n_historical, n_locks,
                 plan_dates, status_seen>>
  /\ UNCHANGED <<timed, writer>>

SavePartialDiscards(p) ==
  /\ pc[p] = "save_partial"
  /\ Leave(p, 1, 377)
  /\ UNCHANGED <<shared, config, locals, history>>
  /\ UNCHANGED <<timed, writer>>

\* after a failed fetch with rows collected (lines 370-377, 386-388)
SavePartial(p) ==
  /\ pc[p] = "save_partial"
  /\ LET merged == Update(existing_rows[p], rows_fetched[p])
     IN  /\ existing_rows' = [existing_rows EXCEPT ![p] = merged]
         /\ n_writes' = [n_writes EXCEPT ![p] = @ + 1]
         /\ \E ok \in BOOLEAN :
              /\ files' = [files EXCEPT ![target[p]] =
                             write_csv_rows(@, merged, ok)]
              /\ IF ok THEN Leave(p, 1, 377) ELSE Leave(p, 1, 388)
  /\ UNCHANGED <<lock_holders, quota, config, attempt, remaining, scan, target,
                 missing_dates, rows_fetched, available, n_historical, n_locks,
                 plan_dates, status_seen>>
  /\ UNCHANGED <<timed, writer>>

(***************************************************************************)
(* Leaving the "with lock" block: FileLock.__exit__ releases the lock,     *)
(* then main() returns the value decided inside the block                  *)
(***************************************************************************)
ReleaseNothing(holders, p) == holders

Release(holders, p) == holders \ {p}

Unlock(p) ==
  /\ pc[p] = "unlock"
  /\ lock_holders' = [lock_holders EXCEPT ![target[p]] = Release(@, p)]
  /\ pc' = [pc EXCEPT ![p] = "done"]
  /\ Cleared(p)
  /\ UNCHANGED <<files, quota, config, results, n_historical, n_writes,
                 n_locks, status_seen>>
  /\ UNCHANGED <<timed, writer>>

(***************************************************************************)
(* Specification                                                           *)
(***************************************************************************)
Next ==
  \E p \in Procs :
    \/ StatusAttempt(p)
    \/ ScanMonth(p)
    \/ Budget(p)
    \/ LockAcquire(p)
    \/ LockTimeout(p)
    \/ Revalidate(p)
    \/ FetchAttempt(p)
    \/ WriteFull(p)
    \/ SavePartial(p)
    \/ Unlock(p)

Spec == Init /\ [][Next]_vars

\* one step of the run p of main()
RunStep(p) ==
  \/ StatusAttempt(p)
  \/ ScanMonth(p)
  \/ Budget(p)
  \/ LockAcquire(p)
  \/ LockTimeout(p)
  \/ Revalidate(p)
  \/ FetchAttempt(p)
  \/ WriteFull(p)
  \/ SavePartial(p)
  \/ Unlock(p)

\* every run keeps running: requests.get returns or raises within
\* REQUEST_TIMEOUT, time.sleep returns, lock.acquire returns or raises
\* Timeout after FILELOCK_TIMEOUT, file operations return or raise
InitFair ==
  /\ \E first \in InitFiles :
       files = [k \in MonthKeys |->
                  IF k = months_since(START_YEAR)[1] THEN first ELSE << >>]
  /\ lock_holders = [k \in MonthKeys |-> {}]
  /\ quota = MaxQuota
  /\ ALLOW_PARTIAL_MONTH \in BOOLEAN
  /\ SAFETY_BUFFER = 0
  /\ InitRuns /\ InitTimed /\ InitWriterIdle

SpecFair ==
  InitFair /\ [][Next]_vars /\ \A p \in Procs : WF_vars(RunStep(p))

\* the same runs on archives that may hold unreadable rows
InitRead == InitSharedRead /\ InitRuns /\ InitTimed /\ InitWriterIdle

SpecRead == InitRead /\ [][Next]_vars

TypeOK ==
  /\ \A k \in MonthKeys : DOMAIN files[k] \subseteq Days
  /\ quota \in 0..MaxQuota
  /\ \A p \in Procs : exit_code[p] \in {None, 0, 1}

(***************************************************************************)
(* Rate limiter and request client in time: one process in the fetch loop  *)
(* of main(), calling do_request("/historical", count_against_rate=True)   *)
(* for one date after the other.  Time is counted in ticks of 0.05 s.      *)
(***************************************************************************)
TicksPerSecond == 20
Window == 60 * TicksPerSecond            \* 60.0
Margin == 1                              \* 0.05 s
RetryBase == 1 * TicksPerSecond          \* RETRY_BASE_SECONDS = 1.0
MaxCalls == MAX_PER_MINUTE + 2           \* dates in the fetch loop

\* requests.get answers, or fails, between at once and REQUEST_TIMEOUT
Latencies == {0, REQUEST_TIMEOUT * TicksPerSecond}

\* RETRY_BASE_SECONDS * (2 ** (attempt - 1))
Backoff(att) == RetryBase * 2 ^ (att - 1)

RECURSIVE SeqMin(_)
SeqMin(seq) ==
  IF Len(seq) = 1 THEN seq[1]
  ELSE LET m == SeqMin(Tail(seq)) IN IF Head(seq) < m THEN Head(seq) ELSE m

\* [t for t in _request_timestamps if now - t < 60.0]
Recent(ts, t) == SelectSeq(ts, LAMBDA x : t - x < Window)

WaitNoSleep(ts, t) == [ts |-> Recent(ts, t), now |-> t]

\* wait_for_rate_slot (lines 79-96): the timestamps kept and the time at
\* which it returns
wait_for_rate_slot(ts, t) ==
  LET kept == Recent(ts, t)
  IN  IF Len(kept) < MAX_PER_MINUTE THEN [ts |-> kept, now |-> t]
      ELSE LET oldest == SeqMin(kept)
               wait_seconds == Window - (t - oldest) + Margin
               woke == t + wait_seconds
           IN  [ts |-> Recent(kept, woke), now |-> woke]

\* do_request, lines 112-114: next attempt, admitted by the rate limiter
RateWait ==
  /\ rl_pc = "top"
  /\ rl_attempt' = rl_attempt + 1
  /\ LET w == wait_for_rate_slot(request_timestamps, now)
     IN  /\ request_timestamps' = w.ts
         /\ now' = w.now
  /\ rl_pc' = "send"
  /\ IF rl_attempt = 0
     THEN rl_seen' = << >> /\ rl_slept' = << >> /\ rl_result' = "none"
     ELSE UNCHANGED <<rl_seen, rl_slept, rl_result>>
  /\ UNCHANGED <<rl_calls, sent_times, call_times>>
  /\ UNCHANGED <<untimed, writer>>

\* do_request, lines 115-134, and the fetch loop around it (lines 364-377):
\* the request is sent; a RequestException is retried after the backoff or
\* raised; a response is time-stamped, a 5xx retried after the backoff; a
\* 200 lets the loop go on with the next date, anything else ends it
RateSend ==
  /\ rl_pc = "send"
  /\ sent_times' = Append(sent_times, now)
  /\ call_times' = IF rl_attempt = 1 THEN Append(call_times, now)
                                     ELSE call_times
  /\ \E oc \in Outcomes, lat \in Latencies :
       LET r == DoRequest(rl_attempt, oc)
           answered == now + lat
       IN  /\ request_timestamps' =
                IF oc = "transport" THEN request_timestamps
                ELSE Append(request_timestamps, answered)
           /\ rl_seen' = Append(rl_seen, oc)
           /\ rl_slept' = IF r = "retry"
                          THEN Append(rl_slept, Backoff(rl_attempt))
                          ELSE rl_slept
           /\ rl_result' = IF r = "retry" THEN rl_result ELSE r
           /\ \/ /\ r = "retry"
                 /\ now' = answered + Backoff(rl_attempt)
                 /\ rl_pc' = "top"
                 /\ UNCHANGED <<rl_attempt, rl_calls>>
              \/ /\ r = "return" /\ oc = "200" /\ rl_calls < MaxCalls
                 /\ now' = answered
                 /\ rl_pc' = "top"
                 /\ rl_attempt' = 0
                 /\ rl_calls' = rl_calls + 1
              \/ /\ r = "raise" \/ oc # "200" \/ rl_calls = MaxCalls
                 /\ r # "retry"
                 /\ now' = answered
                 /\ rl_pc' = "stopped"
                 /\ rl_attempt' = 0
                 /\ UNCHANGED rl_calls
  /\ UNCHANGED <<untimed, writer>>

\* the other variables while only the timed process is looked at
InitUntimed ==
  /\ files = [k \in MonthKeys |-> << >>]
  /\ lock_holders = [k \in MonthKeys |-> {}]
  /\ quota = MaxQuota
  /\ ALLOW_PARTIAL_MONTH = TRUE
  /\ SAFETY_BUFFER = 0

InitRate == InitUntimed /\ InitRuns /\ InitTimed /\ InitWriterIdle

NextRate == RateWait \/ RateSend

SpecRate == InitRate /\ [][NextRate]_vars

(***************************************************************************)
(* write_csv_rows statement by statement (lines 233-254): one call, on a   *)
(* destination with some prior content, with rows_by_date to write.  Every *)
(* file operation may fail with an exception; the process may be killed    *)
(* between any two statements.                                             *)
(***************************************************************************)
\* v in [S -> Cells] for some S within Days
CsvContents(Cells) == UNION {[S -> Cells] : S \in SUBSET Days}

\* the i-th key of sorted(rows_by_date.keys())
dates_sorted(rows_by_date) ==
  Sort([i \in 1..Cardinality(DOMAIN rows_by_date) |->
          CHOOSE d \in DOMAIN rows_by_date :
            Cardinality({e \in DOMAIN rows_by_date : e < d}) = i - 1])

InitWriter ==
  /\ wr_pc = "open"
  /\ wr_path \in CsvContents({"raw"})
  /\ wr_tmp_exists = FALSE
  /\ wr_tmp = << >>
  /\ wr_rows \in CsvContents({"float", "api"})
  /\ wr_i = 0
  /\ wr_exc = FALSE
  /\ wr_prior = wr_path
  /\ wr_created = FALSE
  /\ wr_unlink = "none"

\* open(tmp, "w") and writer.writeheader() (lines 242-244)
WrOpen ==
  /\ wr_pc = "open"
  /\ \/ /\ wr_tmp_exists' = TRUE
        /\ wr_tmp' = << >>
        /\ wr_created' = TRUE
        /\ wr_pc' = "rows"
        /\ UNCHANGED wr_exc
     \/ /\ wr_exc' = TRUE
        /\ wr_pc' = "finally"
        /\ UNCHANGED <<wr_tmp_exists, wr_tmp, wr_created>>
  /\ UNCHANGED <<wr_path, wr_rows, wr_i, wr_prior, wr_unlink>>
  /\ UNCHANGED <<untimed, timed>>

WrRowInPlace ==
  /\ wr_pc = "rows"
  /\ wr_i < Cardinality(DOMAIN wr_rows)
  /\ LET d == dates_sorted(wr_rows)[wr_i + 1]
     IN  wr_path' = [e \in {x \in DOMAIN wr_rows : x <= d} |-> wr_rows[e]]
  /\ wr_i' = wr_i + 1
  /\ UNCHANGED <<wr_pc, wr_tmp, wr_exc, wr_tmp_exists, wr_rows, wr_prior,
                 wr_created, wr_unlink>>
  /\ UNCHANGED <<untimed, timed>>

\* writer.writerow(rows_by_date[d]) for the next d of dates_sorted (245-246)
WrRow ==
  /\ wr_pc = "rows"
  /\ wr_i < Cardinality(DOMAIN wr_rows)
  /\ \/ /\ LET d == dates_sorted(wr_rows)[wr_i + 1]
           IN  wr_tmp' = Update(wr_tmp, (d :> wr_rows[d]))
        /\ wr_i' = wr_i + 1
        /\ UNCHANGED <<wr_pc, wr_exc>>
     \/ /\ wr_exc' = TRUE
        /\ wr_pc' = "finally"
        /\ UNCHANGED <<wr_tmp, wr_i>>
  /\ UNCHANGED <<wr_path, wr_tmp_exists, wr_rows, wr_prior, wr_created,
                 wr_unlink>>
  /\ UNCHANGED <<untimed, timed>>

\* the file is closed and tmp.replace(path) renames it in one step (248)
WrReplace ==
  /\ wr_pc = "rows"
  /\ wr_i = Cardinality(DOMAIN wr_rows)
  /\ \/ /\ wr_path' = wr_tmp
        /\ wr_tmp_exists' = FALSE
        /\ wr_tmp' = << >>
        /\ UNCHANGED wr_exc
     \/ /\ wr_exc' = TRUE
        /\ UNCHANGED <<wr_path, wr_tmp_exists, wr_tmp>>
  /\ wr_pc' = "finally"
  /\ UNCHANGED <<wr_rows, wr_i, wr_prior, wr_created, wr_unlink>>
  /\ UNCHANGED <<untimed, timed>>

\* finally: if tmp.exists(): try tmp.unlink() except Exception: pass
\* (lines 249-254); then the call returns, or the exception goes on
WrFinally ==
  /\ wr_pc = "finally"
  /\ \/ /\ ~wr_tmp_exists
        /\ UNCHANGED <<wr_tmp_exists, wr_tmp, wr_unlink>>
     \/ /\ wr_tmp_exists
        /\ wr_tmp_exists' = FALSE
        /\ wr_tmp' = << >>
        /\ wr_unlink' = "ok"
     \/ /\ wr_tmp_exists
        /\ wr_unlink' = "failed"
        /\ UNCHANGED <<wr_tmp_exists, wr_tmp>>
  /\ wr_pc' = IF wr_exc THEN "raised" ELSE "returned"
  /\ UNCHANGED <<wr_path, wr_rows, wr_i, wr_exc, wr_prior, wr_created>>
  /\ UNCHANGED <<untimed, timed>>

\* the process is killed: no statement of the call runs any more
WrCrash ==
  /\ wr_pc \in {"open", "rows", "finally"}
  /\ wr_pc' = "crashed"
  /\ UNCHANGED <<wr_path, wr_tmp_exists, wr_tmp, wr_rows, wr_i, wr_exc,
                 wr_prior, wr_created, wr_unlink>>
  /\ UNCHANGED <<untimed, timed>>

NextWrite == WrOpen \/ WrRow \/ WrReplace \/ WrFinally \/ WrCrash

InitWrite == InitUntimed /\ InitRuns /\ InitTimed /\ InitWriter

SpecWrite == InitWrite /\ [][NextWrite]_vars

(***************************************************************************)
(* Properties                                                              *)
(***************************************************************************)
InLock == {"revalidate", "fetch", "write", "save_partial", "unlock"}

\* the dates of the target month absent from the rows a run holds
Absent(rows) == {d \in Days : d \notin DOMAIN rows}

Ascending(seq) == \A i \in 1..Len(seq) - 1 : seq[i] < seq[i + 1]

\* C1: at most one run at a time holds a month's lock, and every call of
\* write_csv_rows on a month's file, and every change of the file, is made
\* by a run that holds that month's lock alone.
C1_WritesUnderExclusiveLock ==
  /\ [](\A k \in MonthKeys : Cardinality(lock_holders[k]) <= 1)
  /\ [][/\ \A p \in Procs :
             n_writes'[p] # n_writes[p] =>
               /\ target[p] \in MonthKeys
               /\ lock_holders[target[p]] = {p}
        /\ \A k \in MonthKeys :
             files'[k] # files[k] =>
               \E p \in Procs : /\ target[p] = k
                                /\ n_writes'[p] = n_writes[p] + 1
                                /\ lock_holders[k] = {p}]_vars

\* a run has written its month's file while the other run waits for the lock
C1_Witness ==
  \E p, q \in Procs :
    /\ p # q
    /\ pc[p] = "unlock" /\ n_writes[p] = 1 /\ ret_line[p] = 391
    /\ pc[q] = "lock" /\ target[q] = target[p]

\* C2: after the re-read under the lock, the dates a run fetches are exactly
\* its planned dates that the re-read rows lack; a run that finds all its
\* planned dates filled leaves by line 360 with exit code 0, no /historical
\* request and no write.
C2_LockRevalidation ==
  \A p \in Procs :
    /\ pc[p] = "fetch" =>
         /\ existing_rows[p] = read_csv_rows(files[target[p]])
         /\ Range(missing_dates[p]) = Range(plan_dates[p]) \cap Absent(existing_rows[p])
         /\ missing_dates[p] # << >>
         /\ DOMAIN rows_fetched[p] \subseteq Range(missing_dates[p])
    /\ pc[p] \in {"write", "save_partial"} =>
         /\ DOMAIN rows_fetched[p] \subseteq Range(plan_dates[p])
         /\ \A d \in DOMAIN rows_fetched[p] : d \notin DOMAIN existing_rows[p]
    /\ (pc[p] = "unlock" /\ ret_line[p] = 360) =>
         /\ Range(plan_dates[p]) \subseteq DOMAIN files[target[p]]
         /\ rows_fetched[p] = << >>
    /\ ret_line[p] = 360 =>
         /\ exit_code[p] = 0
         /\ n_historical[p] = 0
         /\ n_writes[p] = 0

\* a run planned some dates, and found all of them filled by the other run
\* when it re-read the file under the lock
C2_Witness ==
  \E p \in Procs :
    /\ pc[p] = "unlock" /\ ret_line[p] = 360
    /\ plan_dates[p] # << >>
    /\ \E q \in Procs : q # p /\ n_writes[q] = 1

\* C3 as stated: when a fetch fails after k >= 1 fetched dates, the run
\* saves: at its end the file holds exactly the rows re-read under the lock
\* updated with the k fetched rows, and the exit code is 1.
C3_PartialSavedAlways ==
  [][\A p \in Procs :
       /\ (pc[p] = "fetch" /\ rows_fetched[p] # << >> /\ pc'[p] \notin {"fetch", "write"})
            => pc'[p] = "save_partial"
       /\ (pc[p] = "save_partial" /\ pc'[p] # "save_partial") =>
            /\ pc'[p] = "unlock"
            /\ exit_code'[p] = 1
            /\ DOMAIN files'[target[p]] =
                 (DOMAIN existing_rows[p]) \cup (DOMAIN rows_fetched[p])
            /\ \A d \in DOMAIN files'[target[p]] :
                 files'[target[p]][d] =
                   IF d \in DOMAIN rows_fetched[p] THEN rows_fetched[p][d]
                   ELSE existing_rows[p][d]]_vars

\* C3, amended: the same, provided write_csv_rows itself does not fail; when
\* it fails (line 388) the file keeps its content; the exit code is 1 in
\* both cases.
C3_PartialSaved ==
  [][\A p \in Procs :
       /\ (pc[p] = "fetch" /\ rows_fetched[p] # << >> /\ pc'[p] \notin {"fetch", "write"})
            => pc'[p] = "save_partial"
       /\ (pc[p] = "save_partial" /\ pc'[p] # "save_partial") =>
            /\ pc'[p] = "unlock"
            /\ exit_code'[p] = 1
            /\ n_writes'[p] = n_writes[p] + 1
            /\ ret_line'[p] \in {377, 388}
            /\ ret_line'[p] = 388 => files' = files
            /\ ret_line'[p] = 377 =>
                 /\ DOMAIN files'[target[p]] =
                      (DOMAIN existing_rows[p]) \cup (DOMAIN rows_fetched[p])
                 /\ \A d \in DOMAIN files'[target[p]] :
                      files'[target[p]][d] =
                        IF d \in DOMAIN rows_fetched[p] THEN rows_fetched[p][d]
                        ELSE existing_rows[p][d]]_vars

\* a run saved one fetched row next to a row that existed, after the fetch of
\* its second date failed
C3_Witness ==
  \E p \in Procs :
    /\ pc[p] = "unlock" /\ ret_line[p] = 377 /\ n_writes[p] = 1
    /\ Cardinality(DOMAIN rows_fetched[p]) = 1
    /\ Len(missing_dates[p]) = 2
    /\ files[target[p]] = existing_rows[p]
    /\ \E d \in DOMAIN files[target[p]] : files[target[p]][d] = "float"
    /\ \E d \in DOMAIN files[target[p]] : files[target[p]][d] = "api"

\* C4 as stated: the /historical attempts a run has sent, retries included,
\* never exceed remaining - SAFETY_BUFFER of its status snapshot.
C4_AttemptsWithinBudget ==
  \A p \in Procs :
    (pc[p] \in InLock /\ remaining[p] # None) =>
      n_historical[p] <= remaining[p] - SAFETY_BUFFER

\* C5: the budget step skips (exit code 0, no lock, no /historical request)
\* when remaining < SAFETY_BUFFER, or nothing is available, or the available
\* count is below the missing count and partial months are not allowed;
\* otherwise it goes on with the N = min(available, missing) earliest missing
\* dates, ascending.
C5_BudgetDecision ==
  [][\A p \in Procs :
       (pc[p] = "budget" /\ pc'[p] # "budget" /\ remaining[p] # None) =>
         LET missing == Absent(existing_rows[p])
             count == Cardinality(missing)
             avail == remaining[p] - SAFETY_BUFFER
             N == IF avail < count THEN avail ELSE count
         IN  IF \/ remaining[p] < SAFETY_BUFFER
                \/ avail <= 0
                \/ (avail < count /\ ~ALLOW_PARTIAL_MONTH)
             THEN /\ pc'[p] = "done"
                  /\ exit_code'[p] = 0
                  /\ n_locks'[p] = 0
                  /\ n_historical'[p] = 0
             ELSE /\ pc'[p] = "lock"
                  /\ Len(missing_dates'[p]) = N
                  /\ Ascending(missing_dates'[p])
                  /\ Range(missing_dates'[p]) \subseteq missing
                  /\ \A d \in missing \ Range(missing_dates'[p]) :
                       \A e \in Range(missing_dates'[p]) : e < d]_vars

\* a run goes on with fewer dates than are missing: the earliest ones
C5_Witness ==
  \E p \in Procs :
    /\ pc[p] = "lock"
    /\ ALLOW_PARTIAL_MONTH
    /\ Len(missing_dates[p]) >= 1
    /\ Len(missing_dates[p]) < Cardinality(Absent(existing_rows[p]))

\* C8: a run whose /status call failed, or whose status has no remaining
\* count while a month has missing dates, ends with exit code 1 without any
\* /historical request, lock or write.
C8_StatusFailClosed ==
  \A p \in Procs :
    /\ status_seen[p] = "failed" =>
         /\ pc[p] = "done" /\ exit_code[p] = 1 /\ ret_line[p] = 290
         /\ n_historical[p] = 0 /\ n_locks[p] = 0 /\ n_writes[p] = 0
    /\ status_seen[p] = "no_remaining" =>
         /\ pc[p] \in {"locate", "budget", "done"}
         /\ n_historical[p] = 0 /\ n_locks[p] = 0 /\ n_writes[p] = 0
         /\ pc[p] = "done" =>
              \/ exit_code[p] = 1 /\ ret_line[p] = 320
              \/ exit_code[p] = 0 /\ ret_line[p] = 309

\* both ways of failing closed have happened
C8_Witness ==
  \E p, q \in Procs :
    /\ status_seen[p] = "failed" /\ pc[p] = "done"
    /\ status_seen[q] = "no_remaining" /\ pc[q] = "done" /\ ret_line[q] = 320

\* C9: a run that stops waiting for a lock another run holds ends with exit
\* code 1 (line 385), has sent no /historical request, has neither re-read
\* nor written the file, and leaves every file as it is.
C9_LockTimeoutFails ==
  [][\A p \in Procs :
       (pc[p] = "lock" /\ lock_holders[target[p]] # {} /\ pc'[p] # "lock") =>
         /\ pc'[p] = "done"
         /\ exit_code'[p] = 1 /\ ret_line'[p] = 385
         /\ n_historical'[p] = 0 /\ n_locks'[p] = 0 /\ n_writes'[p] = 0
         /\ files' = files
         /\ lock_holders' = lock_holders]_vars

\* a run timed out while the other run, in its fetch loop, held the lock
C9_Witness ==
  \E p, q \in Procs :
    /\ p # q
    /\ pc[p] = "done" /\ ret_line[p] = 385
    /\ pc[q] = "fetch"

\* C10: a run that has returned holds no lock, whatever path it left the
\* "with lock" block by; when every run has returned every lock is free.
C10_LockReleased ==
  /\ \A p \in Procs : pc[p] = "done" =>
       \A k \in MonthKeys : p \notin lock_holders[k]
  /\ (\A p \in Procs : pc[p] = "done") =>
       \A k \in MonthKeys : lock_holders[k] = {}

\* a run returned after its write failed, and the other run then took the
\* lock of the same month
C10_Witness ==
  \E p, q \in Procs :
    /\ p # q
    /\ pc[p] = "done" /\ ret_line[p] = 388 /\ n_locks[p] = 1
    /\ pc[q] = "revalidate" /\ n_locks[q] = 1

\* C6 as stated: among the requests.get calls sent for /historical, no more
\* than MAX_PER_MINUTE fall in any window of 60 seconds.
C6_WindowCap ==
  \A i \in 1..Len(sent_times) :
    Cardinality({j \in i..Len(sent_times) :
                   sent_times[j] - sent_times[i] < Window}) <= MAX_PER_MINUTE

\* C7: from an empty limiter, request number MAX_PER_MINUTE + 2 of the fetch
\* loop is sent at least 60 seconds after the first one, request number
\* MAX_PER_MINUTE + 1 already being held back that long.
C7_ForcedWait ==
  \A i \in 1..Len(call_times) :
    i > MAX_PER_MINUTE => call_times[i] - call_times[1] >= Window

\* MAX_PER_MINUTE + 2 requests have been sent
C7_Witness ==
  /\ Len(call_times) = MAX_PER_MINUTE + 2
  /\ call_times[1] = 0

\* C11 as stated: during a call of write_csv_rows, a kill between two
\* statements included, the destination holds its complete prior content or
\* the complete new content; when the call fails after the temporary file
\* was created, the temporary file is gone and the destination is unchanged.
C11_AtomicWriteTmpRemoved ==
  wr_pc # "idle" =>
    /\ wr_path = wr_prior \/ wr_path = wr_rows
    /\ (wr_pc = "raised" /\ wr_created) =>
         /\ ~wr_tmp_exists
         /\ wr_path = wr_prior

\* C11, amended: the same, except that the temporary file stays when
\* tmp.unlink() itself fails (lines 251-254 ignore that failure); the
\* destination is unchanged whenever the call fails.
C11_AtomicWrite ==
  wr_pc # "idle" =>
    /\ wr_path = wr_prior \/ wr_path = wr_rows
    /\ wr_pc = "raised" => wr_path = wr_prior
    /\ wr_pc = "returned" => wr_path = wr_rows
    /\ (wr_pc = "raised" /\ wr_created /\ wr_unlink # "failed") =>
         ~wr_tmp_exists
    /\ (wr_pc \in {"raised", "returned"} /\ wr_tmp_exists) =>
         wr_unlink = "failed"

\* a call failed after it had written one of two rows to the temporary
\* file: the file was removed and the destination, which differs from the
\* rows to write, is as before
C11_Witness ==
  /\ wr_pc = "raised"
  /\ wr_created /\ wr_unlink = "ok" /\ ~wr_tmp_exists
  /\ wr_i = 1 /\ Cardinality(DOMAIN wr_rows) = 2
  /\ wr_path = wr_prior /\ wr_prior # << >>

\* C12 as stated: every write of an archive file keeps every date the
\* file held just before it, so the dates persisted for a month never
\* shrink, also when the file holds content that cannot be read.
\* The dates counted are those of the rows that are themselves intact.
C12_DatesNeverShrink ==
  [][\A k \in MonthKeys :
       {d \in DOMAIN files[k] : files[k][d] # "bad"} \subseteq
         DOMAIN files'[k]]_vars

\* C13: when a run's scan of the months from (START_YEAR, 1) to the current
\* month ends, its target is the earliest month of which a date is absent
\* from the archive, with exactly the absent dates as missing; when no month
\* has an absent date the run ends with exit code 0 (line 309) without any
\* lock, /historical request or write.
C13_OldestGapFirst ==
  [][\A p \in Procs :
       (pc[p] = "locate" /\ pc'[p] # "locate") =>
         LET months == months_since(START_YEAR)
             gaps == {i \in 1..Len(months) : Absent(files[months[i]]) # {}}
         IN  IF gaps = {}
             THEN /\ pc'[p] = "done"
                  /\ exit_code'[p] = 0 /\ ret_line'[p] = 309
                  /\ n_locks'[p] = 0 /\ n_historical'[p] = 0
                  /\ n_writes'[p] = 0
                  /\ files' = files
             ELSE /\ pc'[p] = "budget"
                  /\ \E i \in gaps :
                       /\ \A j \in gaps : i <= j
                       /\ target'[p] = months[i]
                       /\ \A j \in 1..(i - 1) :
                            /\ months[j][1] < months[i][1]
                               \/ (months[j][1] = months[i][1]
                                   /\ months[j][2] < months[i][2])
                  /\ Range(missing_dates'[p]) = Absent(files[target'[p]])
                  /\ Ascending(missing_dates'[p])]_vars

\* a run passed over the complete oldest month and took the current month
C13_Witness ==
  \E p \in Procs :
    /\ pc[p] = "budget"
    /\ target[p] = <<TodayYear, TodayMonth>>
    /\ Absent(files[<<START_YEAR, 1>>]) = {}
    /\ scan[p] = 2

\* C14: once a run has written its fetched rows after a completed loop (line
\* 391), a scan of the resulting file finds none of the dates just filled
\* missing: neither the scan expression evaluated on the file, nor the scan
\* step of another run taken on that state; and no run in its fetch loop
\* requests a date its month's file already holds.
C14_Idempotent ==
  /\ [](\A p \in Procs :
          /\ (pc[p] = "unlock" /\ ret_line[p] = 391) =>
               /\ rows_fetched[p] # << >>
               /\ Range(NotIn(dates_in_month(target[p][1], target[p][2]),
                              read_csv_rows(files[target[p]])))
                    \cap DOMAIN rows_fetched[p] = {}
          /\ pc[p] = "fetch" =>
               Range(missing_dates[p]) \cap DOMAIN files[target[p]] = {})
  /\ [][\A p, q \in Procs :
          (/\ p # q
           /\ pc[p] = "unlock" /\ ret_line[p] = 391
           /\ pc[q] = "locate" /\ pc'[q] = "budget"
           /\ target'[q] = target[p]) =>
            Range(missing_dates'[q]) \cap DOMAIN rows_fetched[p] = {}]_vars

\* a run filled part of a month and the other run, scanning the resulting
\* file, found only the remaining dates missing
C14_Witness ==
  \E p, q \in Procs :
    /\ p # q
    /\ pc[p] = "unlock" /\ ret_line[p] = 391
    /\ pc[q] = "budget" /\ target[q] = target[p]
    /\ missing_dates[q] # << >>
    /\ Range(missing_dates[q]) = Absent(files[target[p]])
    /\ Range(missing_dates[q]) \cap DOMAIN rows_fetched[p] = {}

\* C15: every run reaches its end with exit code 0 or 1; on the way each
\* request makes at most MAX_RETRIES + 1 attempts, the lock is asked for at
\* most once, and the fetch loop goes through its finite list once.
C15_Terminates ==
  /\ [](\A p \in Procs :
          /\ attempt[p] <= MAX_RETRIES
          /\ n_locks[p] <= 1
          /\ Cardinality(DOMAIN rows_fetched[p]) <= Len(missing_dates[p])
          /\ Len(missing_dates[p]) <= DaysPerMonth)
  /\ <>(\A p \in Procs : pc[p] = "done" /\ exit_code[p] \in {0, 1})

\* a run came to its end after waiting for the lock, retrying a request and
\* fetching a date
C15_Witness ==
  \E p \in Procs :
    /\ pc[p] = "done" /\ exit_code[p] \in {0, 1}
    /\ n_locks[p] = 1
    /\ n_historical[p] > DaysPerMonth
    /\ n_writes[p] = 1

C17_AscendingPrefix ==
  /\ [](\A p \in Procs :
          pc[p] \in {"fetch", "write", "save_partial"} =>
            /\ Ascending(missing_dates[p])
            /\ Cardinality(DOMAIN rows_fetched[p]) <= Len(missing_dates[p])
            /\ DOMAIN rows_fetched[p] =
                 {missing_dates[p][i] :
                    i \in 1..Cardinality(DOMAIN rows_fetched[p])}
            /\ pc[p] = "write" =>
                 DOMAIN rows_fetched[p] = Range(missing_dates[p])
            /\ pc[p] = "save_partial" =>
                 /\ rows_fetched[p] # << >>
                 /\ DOMAIN rows_fetched[p] # Range(missing_dates[p]))
  /\ [][\A p \in Procs :
          /\ n_historical'[p] # n_historical[p] => pc[p] = "fetch"
          /\ pc[p] \in {"write", "save_partial", "unlock", "done"} =>
               pc'[p] \in {"write", "save_partial", "unlock", "done"}
          /\ (pc[p] = "fetch" /\ rows_fetched'[p] # rows_fetched[p]) =>
               \E d \in Range(missing_dates[p]) :
                 /\ DOMAIN rows_fetched'[p] = DOMAIN rows_fetched[p] \cup {d}
                 /\ \A e \in DOMAIN rows_fetched[p] : e < d
          /\ (target[p] \in MonthKeys /\ n_writes'[p] # n_writes[p]) =>
               \/ files' = files
               \/ \E j \in 1..Len(missing_dates[p]) :
                    DOMAIN files'[target[p]] \ DOMAIN files[target[p]] =
                      {missing_dates[p][i] : i \in 1..j}]_vars

\* the fetch of the second date of the list failed after the first one was
\* fetched
C17_Witness ==
  \E p \in Procs :
    /\ pc[p] = "save_partial"
    /\ Len(missing_dates[p]) = 2
    /\ DOMAIN rows_fetched[p] = {missing_dates[p][1]}
    /\ n_historical[p] >= 2

\* C18 as stated: with the runs as the only consumers, the remote remaining
\* quota, once at least SAFETY_BUFFER, never falls below SAFETY_BUFFER.
C18_QuotaFloor ==
  [][quota >= SAFETY_BUFFER => quota' >= SAFETY_BUFFER]_vars

\* C19 as stated: every date counted as missing for the target month, and
\* so every date passed to /historical, is today or earlier, also when the
\* target is the current month.
C19_NoFutureDate ==
  \A p \in Procs :
    (pc[p] \in {"budget", "lock", "revalidate", "fetch"}
     /\ target[p] = <<TodayYear, TodayMonth>>) =>
      /\ \A d \in Range(missing_dates[p]) : d <= TodayDay
      /\ pc[p] = "fetch" =>
           NextDate(missing_dates[p], rows_fetched[p]) <= TodayDay

\* C20: a run that ends by a status failure, with nothing missing, by a
\* budget skip, by a lock timeout or with nothing left after the re-read has
\* called write_csv_rows never; a run whose first fetch fails leaves by line
\* 377 without a write; write_csv_rows is called only by a run that has
\* fetched a row, and a step changes no file but the target month's file of
\* the run that writes.
C20_Frame ==
  /\ [](\A p \in Procs :
          ret_line[p] \in {290, 309, 320, 324, 330, 335, 385, 360} =>
            n_writes[p] = 0)
  /\ [][/\ \A p \in Procs :
             /\ (pc[p] = "fetch" /\ rows_fetched[p] = << >>
                 /\ pc'[p] # "fetch" /\ rows_fetched'[p] = << >>) =>
                  /\ pc'[p] = "unlock"
                  /\ exit_code'[p] = 1 /\ ret_line'[p] = 377
                  /\ n_writes'[p] = 0
                  /\ files' = files
             /\ n_writes'[p] # n_writes[p] =>
                  /\ rows_fetched[p] # << >>
                  /\ \A k \in MonthKeys \ {target[p]} : files'[k] = files[k]
        /\ (\A p \in Procs : n_writes'[p] = n_writes[p]) =>
             files' = files]_vars

\* the first fetch of a run failed: the run is about to end without a write,
\* on a file whose rows a write would have rewritten
C20_Witness ==
  \E p \in Procs :
    /\ pc[p] = "unlock" /\ ret_line[p] = 377
    /\ rows_fetched[p] = << >>
    /\ n_historical[p] >= 1 /\ n_writes[p] = 0
    /\ \E d \in DOMAIN files[target[p]] : files[target[p]][d] = "raw"

====
